---- MODULE Spec2Model ----
(***************************************************************************)
(* Seth transaction processor core: the four transaction handlers          *)
(* (processor/src/seth_tp/handler/transaction_handlers.go) running over    *)
(* the EVM application state (sawtooth_app_state.go).                      *)
(*                                                                         *)
(* An EVM address is a sequence of naturals: <<0>> is the global           *)
(* permissions address, <<k>> the address of public key k, and             *)
(* Append(a, n) the address derived from creator a and nonce n (a          *)
(* collision-free stand-in for KECCAK256(RLP(a, n))[12:]).                 *)
(* A permission mask is the set of its flags.                              *)
(***************************************************************************)
EXTENDS Integers, Sequences, FiniteSets, TLC

\* ---------------------------------------------------------------- bounds
MaxNonce == 3
MaxTxns == 4
NumKeys == 2

\* ------------------------------------------------------------- constants
Word256Length == 32

HexBase == 16

\* the first hex digit written as a letter
FirstLetterDigit == 10

\* A character of a hex string is the value of its digit, 0..15 for
\* 0..9 and a..f; the upper-case letters A..F are the characters
\* HexBase + 10 .. HexBase + 15.
IsUpperHexLetter(c) == c \in (HexBase + FirstLetterDigit)..(2 * HexBase - 1)

\* the width at which account balances are modelled
BalanceBits == 8

\* storage slots and slot values the adapter is driven with
NumSlots == 2

MaxWord == 1

Root == "Root"
Send == "Send"
Call == "Call"
CreateContract == "CreateContract"
CreateAccount == "CreateAccount"
AllPermFlags == {Root, Send, Call, CreateContract, CreateAccount}

GlobalPermissionsAddress == <<0>>

Keys == 1..NumKeys

\* ------------------------------------------------------ address codec
PublicKeyToEvmAddr(pk) == <<pk>>

Derive(creator, nonce) == Append(creator, nonce)

\* ------------------------------------------------------------- words
Word(n) == [i \in 1..Word256Length |-> IF i = Word256Length THEN n ELSE 0]

Zero256 == Word(0)

LeftPadWord256(bs) ==
    IF Len(bs) >= Word256Length
    THEN SubSeq(bs, 1, Word256Length)
    ELSE [i \in 1..Word256Length |->
            IF i <= Word256Length - Len(bs) THEN 0
            ELSE bs[i - (Word256Length - Len(bs))]]

\* ------------------------------------------------------- permissions
ZeroPermissions == [Perms |-> {}, SetBit |-> {}]

\* permission.BasePermissions.Set
BaseSet(bp, ty, value) ==
    [Perms  |-> IF value THEN bp.Perms \cup {ty} ELSE bp.Perms \ {ty},
     SetBit |-> bp.SetBit \cup {ty}]

toStatePermissions(aPerm) ==
    [Perms |-> aPerm.Base.Perms, SetBit |-> aPerm.Base.SetBit]

toVmPermissions(ePerm) ==
    [Base |-> [Perms |-> ePerm.Perms, SetBit |-> ePerm.SetBit]]

\* ------------------------------------------------------ state manager
EmptyState == [a \in {} |-> a]

Exists(st, addr) == addr \in DOMAIN st

SetEntry(st, addr, entry) ==
    [a \in (DOMAIN st) \cup {addr} |-> IF a = addr THEN entry ELSE st[a]]

FreshEntry(addr) ==
    [Account |-> [Address |-> addr, Balance |-> 0, Code |-> <<>>,
                  Nonce |-> 0, Permissions |-> ZeroPermissions],
     Storage |-> <<>>]

\* caller checks ~Exists(st, addr); an existing entry is an error
NewEntry(st, addr) == SetEntry(st, addr, FreshEntry(addr))

DelEntry(st, addr) == [a \in (DOMAIN st) \ {addr} |-> st[a]]

\* ---------------------------------------------------------- app state
\* The casts between the EVM's unsigned balance and the entry's signed
\* one, at a width of BalanceBits bits in place of 64: the bit pattern is
\* kept, so the upper half of the unsigned range is stored negative.
Int64(b) == IF b >= 2 ^ (BalanceBits - 1) THEN b - 2 ^ BalanceBits ELSE b

Uint64(s) == IF s < 0 THEN s + 2 ^ BalanceBits ELSE s

toStateAccount(acct) ==
    [Address     |-> acct.Address,
     Balance     |-> Int64(acct.Balance),
     Code        |-> acct.Code,
     Nonce       |-> acct.Sequence,
     Permissions |-> toStatePermissions(acct.Permissions)]

\* toVmAccount reading the balance without the cast back
toVmAccount_SignedBalance(sa) ==
    [Address     |-> sa.Address,
     Balance     |-> sa.Balance,
     Code        |-> sa.Code,
     Sequence    |-> sa.Nonce,
     Permissions |-> toVmPermissions(sa.Permissions)]

toVmAccount(sa) ==
    [Address     |-> sa.Address,
     Balance     |-> Uint64(sa.Balance),
     Code        |-> sa.Code,
     Sequence    |-> sa.Nonce,
     Permissions |-> toVmPermissions(sa.Permissions)]

\* defined for existing entries; a missing entry is the nil account
GetAccount(st, addr) == toVmAccount(st[addr].Account)

\* UpdateAccount starting from a new entry also when one exists
UpdateAccount_FreshEntry(st, acct) ==
    SetEntry(st, acct.Address,
             [FreshEntry(acct.Address) EXCEPT !.Account = toStateAccount(acct)])

UpdateAccount(st, acct) ==
    LET entry == IF Exists(st, acct.Address) THEN st[acct.Address]
                 ELSE FreshEntry(acct.Address)
    IN SetEntry(st, acct.Address,
                [entry EXCEPT !.Account = toStateAccount(acct)])

RemoveAccount(st, addr) == DelEntry(st, addr)

RECURSIVE FindKey(_, _, _)
\* index of the first pair at or after i whose padded key equals key, else 0
FindKey(storage, key, i) ==
    IF i > Len(storage) THEN 0
    ELSE IF LeftPadWord256(storage[i].Key) = key THEN i
    ELSE FindKey(storage, key, i + 1)

\* GetStorage returning the first pair's value whatever its key
GetStorage_FirstPair(st, addr, key) ==
    LET storage == st[addr].Storage
    IN IF storage = <<>> THEN Zero256 ELSE LeftPadWord256(storage[1].Value)

GetStorage(st, addr, key) ==
    LET storage == st[addr].Storage
        i == FindKey(storage, key, 1)
    IN IF i = 0 THEN Zero256 ELSE LeftPadWord256(storage[i].Value)

\* SetStorage appending a pair also when the key is present
SetStorage_AppendAlways(st, addr, key, value) ==
    LET entry == st[addr]
    IN SetEntry(st, addr,
                [entry EXCEPT !.Storage =
                    Append(@, [Key |-> key, Value |-> value])])

SetStorage(st, addr, key, value) ==
    LET entry == st[addr]
        i == FindKey(entry.Storage, key, 1)
        storage == IF i # 0
                   THEN [entry.Storage EXCEPT ![i].Value = value]
                   ELSE Append(entry.Storage, [Key |-> key, Value |-> value])
    IN SetEntry(st, addr, [entry EXCEPT !.Storage = storage])

\* hex.DecodeString on a string given as the values of its characters:
\* 0..15 for a hex digit, HexBase for any other character. An odd length
\* or a character that is no hex digit is an error.
HexDecodeFails(str) ==
    \/ Len(str) % 2 = 1
    \/ \E i \in 1..Len(str) :
           str[i] >= HexBase /\ ~IsUpperHexLetter(str[i])

HexDecode(str) ==
    [i \in 1..(Len(str) \div 2) |->
        HexBase * (str[2 * i - 1] % HexBase) + (str[2 * i] % HexBase)]

\* binary.RightPadWord256: the bytes from the left, zeros after them
RightPadWord256(bs) ==
    [i \in 1..Word256Length |-> IF i <= Len(bs) THEN bs[i] ELSE 0]

\* StringToWord256
StringToWord256(str) ==
    IF HexDecodeFails(str) THEN [hash |-> Zero256, err |-> TRUE]
    ELSE [hash |-> RightPadWord256(HexDecode(str)), err |-> FALSE]

\* GetBlockHash, given what getBlockInfo finds for the block number: {} when
\* the context holds no block info entry for it (getBlockInfo returns an
\* error), else {the record}
GetBlockHash(blockInfo) ==
    IF blockInfo = {} THEN [hash |-> Zero256, err |-> TRUE]
    ELSE StringToWord256((CHOOSE b \in blockInfo : TRUE).HeaderSignature)

\* evm.HasPermission: the account's own bit when it governs the flag,
\* otherwise the global permissions account's, otherwise denied
HasPermission(st, addr, perm) ==
    LET base == st[addr].Account.Permissions
    IN IF perm \in base.SetBit THEN perm \in base.Perms
       ELSE /\ Exists(st, GlobalPermissionsAddress)
            /\ perm \in st[GlobalPermissionsAddress].Account.Permissions.SetBit
            /\ perm \in st[GlobalPermissionsAddress].Account.Permissions.Perms

\* ------------------------------------------------------------ the EVM
\* One run of the EVM as seen by the handler: whether it failed, its
\* output, the gas it used, the storage writes it issued to the callee
\* (in order, before returning) and whether the callee created a
\* sub-contract (one CREATE).
Write(k, v) == [Key |-> k, Value |-> v]

EvmRuns ==
    {[err |-> FALSE, out |-> <<96>>, gasUsed |-> 1, writes |-> <<>>,
      create |-> FALSE],
     [err |-> FALSE, out |-> <<97>>, gasUsed |-> 2,
      writes |-> <<Write(Word(1), Word(1))>>, create |-> FALSE],
     [err |-> FALSE, out |-> <<98>>, gasUsed |-> 3, writes |-> <<>>,
      create |-> TRUE],
     [err |-> TRUE,  out |-> <<>>,   gasUsed |-> 0,
      writes |-> <<Write(Word(1), Word(1))>>, create |-> FALSE]}

NoRun ==
    [err |-> FALSE, out |-> <<>>, gasUsed |-> 0, writes |-> <<>>,
     create |-> FALSE]

\* the code the EVM stores for a sub-contract
SubContractCode == <<99>>

RECURSIVE ApplyWrites(_, _, _)
ApplyWrites(st, addr, writes) ==
    IF writes = <<>> THEN st
    ELSE ApplyWrites(SetStorage(st, addr, Head(writes).Key, Head(writes).Value),
                     addr, Tail(writes))

\* CreateAccount deriving the address after the increment
SawtoothAppState_CreateAccount_IncFirst(st, creator) ==
    LET creator1 == [creator EXCEPT !.Sequence = @ + 1]
        newAddress == Derive(creator1.Address, creator1.Sequence)
    IN IF Exists(st, newAddress)
       THEN [panic |-> TRUE, st |-> st, creator |-> creator1]
       ELSE [panic |-> FALSE, st |-> NewEntry(st, newAddress),
             creator |-> creator1,
             acct |-> toVmAccount(FreshEntry(newAddress).Account)]

\* SawtoothAppState.CreateAccount(creator): the new address is derived
\* from the creator's nonce before the increment, the increment is made on
\* the creator in memory, and an entry already present at the new address
\* is a panic.
SawtoothAppState_CreateAccount(st, creator) ==
    LET newAddress == Derive(creator.Address, creator.Sequence)
        creator1 == [creator EXCEPT !.Sequence = @ + 1]
    IN IF Exists(st, newAddress)
       THEN [panic |-> TRUE, st |-> st, creator |-> creator1]
       ELSE [panic |-> FALSE, st |-> NewEntry(st, newAddress),
             creator |-> creator1,
             acct |-> toVmAccount(FreshEntry(newAddress).Account)]

\* the CREATE opcode run by callee: create_account(callee), then the new
\* account is stored with its code
SubCreate(st, callee) ==
    LET c == SawtoothAppState_CreateAccount(st, callee)
    IN IF c.panic THEN [panic |-> TRUE, st |-> st, callee |-> c.creator]
       ELSE [panic  |-> FALSE,
             st     |-> UpdateAccount(c.st,
                            [c.acct EXCEPT !.Code = SubContractCode]),
             callee |-> c.creator]

\* receiver is {} (nil: the sender is also the callee) or {account}.
\* callee is the callee account as the run leaves it in memory: the
\* handler goes on with that object.
callVm(st, sender, receiver, run) ==
    LET callee == IF receiver = {} THEN sender ELSE CHOOSE r \in receiver : TRUE
        st1 == ApplyWrites(st, callee.Address, run.writes)
    IN [err     |-> run.err,
        panic   |-> run.create /\ SubCreate(st1, callee).panic,
        st      |-> IF run.create THEN SubCreate(st1, callee).st ELSE st1,
        callee  |-> IF run.create THEN SubCreate(st1, callee).callee
                    ELSE callee,
        out     |-> IF run.err THEN <<>> ELSE run.out,
        gasUsed |-> IF run.err THEN 0 ELSE run.gasUsed]

\* ----------------------------------------------------- handler results
\* kind "invalid": HandlerResult{Error: InvalidTransactionError};
\* kind "panic": the handler did not return; st is the context state at
\* that point, writes issued so far included.
\* mid: the context states the handler's earlier writes left, in order,
\* between the state it was entered with and st.
Invalid(st) ==
    [kind |-> "invalid", st |-> st, GasUsed |-> 0, ReturnValue |-> <<>>,
     NewAccount |-> {}, mid |-> <<>>]

Ok(st, gasUsed, out, newAcct) ==
    [kind |-> "ok", st |-> st, GasUsed |-> gasUsed, ReturnValue |-> out,
     NewAccount |-> newAcct, mid |-> <<>>]

Panic(st) ==
    [kind |-> "panic", st |-> st, GasUsed |-> 0, ReturnValue |-> <<>>,
     NewAccount |-> {}, mid |-> <<>>]

\* the result res of a handler whose earlier writes left the states mid
Via(mid, res) == [res EXCEPT !.mid = mid]

\* ------------------------------------------------------------ handlers
\* A transaction body: To and Permissions are {} when the field is unset.
Txn(to, nonce, perms) == [To |-> to, Nonce |-> nonce, Permissions |-> perms]

\* permissions of an account created by senderAcct
InheritedPermissions(senderAcct) ==
    [Base |-> BaseSet(senderAcct.Permissions.Base, Root, FALSE)]

ExplicitPermissions(txn) == toVmPermissions(CHOOSE p \in txn.Permissions : TRUE)

MayCreateExternal(st, senderAcct) ==
    HasPermission(st, senderAcct.Address, CreateAccount)

MayCreateContract_GlobalFirst(st, senderAcct) ==
    \/ HasPermission(st, GlobalPermissionsAddress, CreateContract)
    \/ HasPermission(st, senderAcct.Address, CreateContract)

MayCreateContract(st, senderAcct) ==
    HasPermission(st, senderAcct.Address, CreateContract)

MayCall_Unchecked(st, senderAcct) == TRUE

MayCall(st, senderAcct) ==
    HasPermission(st, senderAcct.Address, Call)

MayChangePermissions_LocalOnly(st, senderAcct) ==
    Root \in st[senderAcct.Address].Account.Permissions.Perms

MayChangePermissions(st, senderAcct) ==
    HasPermission(st, senderAcct.Address, Root)

\* explicit permissions accepted from any sender
MaySetNewPermissions_Unchecked(st, senderAcct) == TRUE

\* creating with an explicit permissions field requires Root
MaySetNewPermissions(st, senderAcct) ==
    HasPermission(st, senderAcct.Address, Root)

\* the nonce in the transaction matches the nonce in state
NonceMatches_Always(txn, senderAcct) == TRUE

NonceMatches(txn, senderAcct) == txn.Nonce = senderAcct.Sequence

\* the branch of CreateExternalAccount: `to` set is on-behalf
OnBehalf_Never(txn) == FALSE

OnBehalf(txn) == txn.To # {}

\* on-behalf: the new account must not already exist
TargetExists_Never(st, newAcctAddr) == FALSE

TargetExists(st, newAcctAddr) == Exists(st, newAcctAddr)

\* self-bootstrap: the new account must not already exist
SenderAlreadyExists_Never(st, sender) == FALSE

SenderAlreadyExists(st, sender) == Exists(st, sender)

\* self-bootstrap: the global permissions decide if the account can be
\* created
MayBootstrap_Always(st, global) == TRUE

MayBootstrap(st, global) == HasPermission(st, global.Address, CreateAccount)

\* the EVM call returned an error
VmFailed_Never(vm) == FALSE

VmFailed(vm) == vm.err

\* message call: the receiving account must exist to call it
ReceiverMissing_Never(st, receiver) == FALSE

ReceiverMissing(st, receiver) == ~Exists(st, receiver)

\* SetPermissions: a missing receiver is created when it is the global
\* permissions address
AutoCreated_Never(receiver) == FALSE

AutoCreated(receiver) == receiver = GlobalPermissionsAddress

\* the receiver replaced by a new account carrying the permissions
WithPermissions_Renewed(receiverAcct, newPerms) ==
    [Address |-> receiverAcct.Address, Balance |-> 0, Code |-> <<>>,
     Sequence |-> 1, Permissions |-> newPerms]

\* SetPermissions: receiverAcct.Permissions = newPerms
WithPermissions_Merged(receiverAcct, newPerms) ==
    [receiverAcct EXCEPT
        !.Permissions.Base.Perms = @ \cup newPerms.Base.Perms,
        !.Permissions.Base.SetBit = @ \cup newPerms.Base.SetBit]

WithPermissions(receiverAcct, newPerms) ==
    [receiverAcct EXCEPT !.Permissions = newPerms]

OnBehalfAccount(newAcctAddr, newPerms) ==
    [Address |-> newAcctAddr, Balance |-> 0, Code |-> <<>>, Sequence |-> 1,
     Permissions |-> newPerms]

\* the bootstrap account left at the default sequence
BootstrapAccount_Unsequenced(sender, global) ==
    [Address |-> sender, Balance |-> 0, Code |-> <<>>, Sequence |-> 0,
     Permissions |-> global.Permissions]

BootstrapAccount_RootOff(sender, global) ==
    [Address |-> sender, Balance |-> 0, Code |-> <<>>, Sequence |-> 1,
     Permissions |-> [Base |-> BaseSet(global.Permissions.Base, Root, FALSE)]]

BootstrapAccount(sender, global) ==
    [Address |-> sender, Balance |-> 0, Code |-> <<>>, Sequence |-> 1,
     Permissions |-> global.Permissions]

CreateExternalAccount(st, sender, txn, run) ==
    IF OnBehalf(txn)
    THEN IF ~Exists(st, sender) THEN Invalid(st)
         ELSE LET senderAcct == GetAccount(st, sender)
                  newAcctAddr == CHOOSE a \in txn.To : TRUE
              IN IF ~MayCreateExternal(st, senderAcct) THEN Invalid(st)
                 ELSE IF ~NonceMatches(txn, senderAcct) THEN Invalid(st)
                 ELSE IF TargetExists(st, newAcctAddr) THEN Invalid(st)
                 ELSE IF txn.Permissions # {} /\ ~MaySetNewPermissions(st, senderAcct)
                      THEN Invalid(st)
                 ELSE LET newPerms == IF txn.Permissions = {}
                                      THEN InheritedPermissions(senderAcct)
                                      ELSE ExplicitPermissions(txn)
                          newAcct == OnBehalfAccount(newAcctAddr, newPerms)
                          senderAcct1 == [senderAcct EXCEPT !.Sequence = @ + 1]
                          st1 == UpdateAccount(st, senderAcct1)
                          st2 == UpdateAccount(st1, newAcct)
                      IN Via(<<st1>>, Ok(st2, 0, <<>>, {newAcct}))
    ELSE IF SenderAlreadyExists(st, sender) THEN Invalid(st)
         ELSE LET global == GetAccount(st, GlobalPermissionsAddress)
              IN IF ~MayBootstrap(st, global) THEN Invalid(st)
                 ELSE LET newAcct == BootstrapAccount(sender, global)
                      IN Ok(UpdateAccount(st, newAcct), 0, <<>>, {newAcct})

\* the address the handler derives and hands to sapps.CreateAccount, which
\* creates the entry there through StateManager.NewEntry and panics when an
\* entry is already present
DerivedAddress(senderAcct) == Derive(senderAcct.Address, senderAcct.Sequence)

\* the account the handler runs the init code as, completes with code and
\* permissions, stores last and reports as NewAccount: it is read back at
\* senderAcct.Address, not at newAddress
RefetchedAccount(st, senderAcct, newAddress) == GetAccount(st, senderAcct.Address)

CreateContractAccount(st, sender, txn, run) ==
    IF ~Exists(st, sender) THEN Invalid(st)
    ELSE LET senderAcct == GetAccount(st, sender)
         IN IF ~MayCreateContract(st, senderAcct) THEN Invalid(st)
            ELSE IF ~NonceMatches(txn, senderAcct) THEN Invalid(st)
            ELSE IF txn.Permissions # {} /\ ~MaySetNewPermissions(st, senderAcct)
                 THEN Invalid(st)
            ELSE LET newPerms == IF txn.Permissions = {}
                                 THEN InheritedPermissions(senderAcct)
                                 ELSE ExplicitPermissions(txn)
                     newAddress == DerivedAddress(senderAcct)
                     senderAcct1 == [senderAcct EXCEPT !.Sequence = @ + 1]
                 IN IF Exists(st, newAddress) THEN Panic(st)
                    ELSE LET st1 == NewEntry(st, newAddress)
                             newAcct == RefetchedAccount(st1, senderAcct, newAddress)
                             vm == callVm(st1, newAcct, {}, run)
                             newAcct1 == [vm.callee EXCEPT
                                            !.Sequence = @ + 1,
                                            !.Code = vm.out,
                                            !.Permissions = newPerms]
                             st2 == UpdateAccount(vm.st, senderAcct1)
                             st3 == UpdateAccount(st2, newAcct1)
                         IN IF vm.panic THEN Via(<<st1>>, Panic(vm.st))
                            ELSE IF VmFailed(vm) THEN Via(<<st1>>, Invalid(vm.st))
                            ELSE Via(<<st1, vm.st, st2>>,
                                     Ok(st3, vm.gasUsed, vm.out, {newAcct1}))

MessageCall(st, sender, txn, run) ==
    IF ~Exists(st, sender) THEN Invalid(st)
    ELSE LET senderAcct == GetAccount(st, sender)
         IN IF ~MayCall(st, senderAcct) THEN Invalid(st)
            ELSE IF ~NonceMatches(txn, senderAcct) THEN Invalid(st)
            ELSE IF txn.To = {} THEN Invalid(st)
            ELSE LET receiver == CHOOSE a \in txn.To : TRUE
                 IN IF ReceiverMissing(st, receiver) THEN Invalid(st)
                    \* a nil receiverAcct is dereferenced at receiverAcct.Code
                    ELSE IF ~Exists(st, receiver) THEN Panic(st)
                    ELSE LET receiverAcct == GetAccount(st, receiver)
                             vm == callVm(st, senderAcct, {receiverAcct}, run)
                             senderAcct1 == [senderAcct EXCEPT !.Sequence = @ + 1]
                             st1 == UpdateAccount(vm.st, senderAcct1)
                             st2 == UpdateAccount(st1, vm.callee)
                         IN IF vm.panic THEN Panic(vm.st)
                            ELSE IF VmFailed(vm) THEN Invalid(vm.st)
                            ELSE Via(<<vm.st, st1>>,
                                     Ok(st2, vm.gasUsed, vm.out, {}))

SetPermissions(st, sender, txn, run) ==
    IF txn.Permissions = {} THEN Invalid(st)
    ELSE IF ~Exists(st, sender) THEN Invalid(st)
    ELSE LET newPerms == ExplicitPermissions(txn)
             senderAcct == GetAccount(st, sender)
         IN IF ~MayChangePermissions(st, senderAcct) THEN Invalid(st)
            ELSE IF ~NonceMatches(txn, senderAcct) THEN Invalid(st)
            ELSE IF txn.To = {} THEN Invalid(st)
            ELSE LET receiver == CHOOSE a \in txn.To : TRUE
                 IN IF ~Exists(st, receiver) /\ ~AutoCreated(receiver)
                    THEN Invalid(st)
                    ELSE LET receiverAcct ==
                                 IF Exists(st, receiver) THEN GetAccount(st, receiver)
                                 ELSE [Address |-> receiver, Balance |-> 0,
                                       Code |-> <<>>, Sequence |-> 1,
                                       Permissions |-> toVmPermissions(ZeroPermissions)]
                             senderAcct1 == [senderAcct EXCEPT !.Sequence = @ + 1]
                             receiverAcct1 == WithPermissions(receiverAcct, newPerms)
                             st1 == UpdateAccount(st, senderAcct1)
                             st2 == UpdateAccount(st1, receiverAcct1)
                         IN Via(<<st1>>, Ok(st2, 0, <<>>, {}))

\* ---------------------------------------------------------- dispatcher
TxnHandlers ==
    {"CreateExternalAccount", "CreateContractAccount", "MessageCall",
     "SetPermissions"}

Handle(type, st, sender, txn, run) ==
    CASE type = "CreateExternalAccount" -> CreateExternalAccount(st, sender, txn, run)
      [] type = "CreateContractAccount" -> CreateContractAccount(st, sender, txn, run)
      [] type = "MessageCall"           -> MessageCall(st, sender, txn, run)
      [] type = "SetPermissions"        -> SetPermissions(st, sender, txn, run)

GlobalPermissionsAccount ==
    [Address |-> GlobalPermissionsAddress, Balance |-> 0, Code |-> <<>>,
     Sequence |-> 0,
     Permissions |-> [Base |-> [Perms |-> AllPermFlags, SetBit |-> AllPermFlags]]]

\* the dispatcher's only implicit write
EnsureGlobalPermissions(st) ==
    IF Exists(st, GlobalPermissionsAddress) THEN st
    ELSE UpdateAccount(st, GlobalPermissionsAccount)

\* the receipt attached to a successful transaction
Receipt(res) ==
    [ContractAddress |-> {a.Address : a \in res.NewAccount},
     GasUsed         |-> res.GasUsed,
     ReturnValue     |-> res.ReturnValue]

\* ---------------------------------------------------------------- inputs
PermChoices ==
    {[Perms |-> {}, SetBit |-> AllPermFlags],
     [Perms |-> {Call}, SetBit |-> {Call}],
     [Perms |-> {Root}, SetBit |-> {Root}]}

ToChoices ==
    {GlobalPermissionsAddress} \cup {PublicKeyToEvmAddr(k) : k \in Keys}
        \cup {Derive(PublicKeyToEvmAddr(1), n) : n \in 1..2}

Optional(S) == {{}} \cup {{x} : x \in S}

Nonces == 0..(MaxNonce - 1)

\* ----------------------------------------------------------------- state
\* state: the committed entries of the seth namespace, by EVM address.
\* last:  the transaction being answered, or NoTxn when the processor is
\*        idle: its type, sender and body, the EVM run it met, the context
\*        state when the handler was entered (pre), the handler's result
\*        with the context state when it returned (res.st), and the
\*        receipts added.
\* ntx:   the number of transactions committed so far.
\* written: for the adapter on its own, the value most recently handed to
\*        SetStorage for each slot of each account since the account's
\*        entry was made; zero for a slot never set. The handlers leave
\*        it alone.
\* events: the events added to the context through AddEvent, in order.
VARIABLES state, last, ntx, written, events

vars == <<state, last, ntx, written, events>>

NoTxn ==
    [type |-> "none", sender |-> GlobalPermissionsAddress,
     txn |-> Txn({}, 0, {}), run |-> NoRun,
     pre |-> EmptyState, res |-> Invalid(EmptyState), receipts |-> <<>>]

Init ==
    /\ state = EmptyState
    /\ last = NoTxn
    /\ ntx = 0
    /\ written = <<>>
    /\ events = <<>>

\* an app state kept by the processor over its transactions: the global
\* permissions entry cached at the first one is served ever after
NewSawtoothAppState_Kept(context) ==
    IF ntx = 0 \/ ~Exists(context, GlobalPermissionsAddress) THEN context
    ELSE UpdateAccount(context, GlobalPermissionsAccount)

\* NewSawtoothAppState: a new state manager, which has nothing cached, over
\* the context of the transaction; every read falls through to the context
NewSawtoothAppState(context) == context

\* the processor is waiting for a transaction
Idle == last.type = "none" /\ ntx < MaxTxns

\* Apply: the dispatcher takes one transaction and runs its handler to the
\* end against the context.
Apply(type, pk, txn, run) ==
    LET sender == PublicKeyToEvmAddr(pk)
        st0 == EnsureGlobalPermissions(NewSawtoothAppState(state))
        res == Handle(type, st0, sender, txn, run)
    IN /\ Exists(state, sender) => state[sender].Account.Nonce < MaxNonce
       /\ last' = [type |-> type, sender |-> sender, txn |-> txn, run |-> run,
                   pre |-> st0, res |-> res,
                   receipts |-> IF res.kind = "ok" THEN <<Receipt(res)>> ELSE <<>>]
       /\ UNCHANGED <<state, ntx, written, events>>

ApplyCreateExternalAccount ==
    /\ Idle
    /\ \E pk \in Keys, to \in Optional(ToChoices), n \in Nonces,
           p \in Optional(PermChoices) :
            Apply("CreateExternalAccount", pk, Txn(to, n, p), NoRun)

ApplyCreateContractAccount ==
    /\ Idle
    /\ \E pk \in Keys, n \in Nonces, p \in Optional(PermChoices), run \in EvmRuns :
            Apply("CreateContractAccount", pk, Txn({}, n, p), run)

ApplyMessageCall ==
    /\ Idle
    /\ \E pk \in Keys, to \in Optional(ToChoices), n \in Nonces, run \in EvmRuns :
            Apply("MessageCall", pk, Txn(to, n, {}), run)

ApplySetPermissions ==
    /\ Idle
    /\ \E pk \in Keys, to \in Optional(ToChoices), n \in Nonces,
           p \in Optional(PermChoices) :
            Apply("SetPermissions", pk, Txn(to, n, p), NoRun)

\* The validator commits the writes of a transaction whose handler
\* returned without error and drops them otherwise.
Respond ==
    /\ last.type # "none"
    /\ state' = IF last.res.kind = "ok" THEN last.res.st ELSE state
    /\ ntx' = IF last.res.kind = "ok" THEN ntx + 1 ELSE ntx
    /\ last' = NoTxn
    /\ UNCHANGED <<written, events>>

Next ==
    \/ ApplyCreateExternalAccount
    \/ ApplyCreateContractAccount
    \/ ApplyMessageCall
    \/ ApplySetPermissions
    \/ Respond

Spec == Init /\ [][Next]_vars

TypeOK ==
    /\ \A a \in DOMAIN state :
          /\ state[a].Account.Address = a
          /\ state[a].Account.Nonce \in 0..(MaxNonce + MaxTxns)
    /\ last.type \in TxnHandlers \cup {"none"}
    /\ ntx \in 0..MaxTxns

\* ------------------------------------------- the handler on its own
\* SetPermissions as a function of the context it is handed: the context
\* is drawn from a set that also holds states without a global
\* permissions account, which the dispatcher never hands over.
ContextAccount(addr, perms) ==
    [Address |-> addr, Balance |-> 0, Code |-> <<>>, Sequence |-> 1,
     Permissions |-> toVmPermissions(perms)]

AllOn == [Perms |-> AllPermFlags, SetBit |-> AllPermFlags]

\* sender <<1>> with permissions sp, a global account with permissions g
\* when g is not {}, and account <<2>> when b
Context(sp, g, b) ==
    LET s1 == UpdateAccount(EmptyState,
                            ContextAccount(PublicKeyToEvmAddr(1), sp))
        s2 == IF g = {} THEN s1
              ELSE UpdateAccount(s1,
                       [GlobalPermissionsAccount EXCEPT
                           !.Permissions =
                               toVmPermissions(CHOOSE x \in g : TRUE)])
    IN IF b THEN UpdateAccount(s2, ContextAccount(PublicKeyToEvmAddr(2),
                                                  ZeroPermissions))
       ELSE s2

HandlerContexts ==
    {Context(sp, g, b) :
        sp \in {AllOn, [Perms |-> {Call}, SetBit |-> {Call}]},
        g \in Optional(PermChoices \cup {AllOn}),
        b \in BOOLEAN}

HandlerInit ==
    /\ state \in HandlerContexts
    /\ last = NoTxn
    /\ ntx = 0
    /\ written = <<>>
    /\ events = <<>>

HandleSetPermissions ==
    /\ Idle
    /\ \E pk \in Keys, to \in Optional(ToChoices), n \in Nonces,
           p \in Optional(PermChoices) :
          LET sender == PublicKeyToEvmAddr(pk)
              txn == Txn(to, n, p)
          IN /\ Exists(state, sender) => state[sender].Account.Nonce < MaxNonce
             /\ last' = [type |-> "SetPermissions", sender |-> sender,
                         txn |-> txn, run |-> NoRun, pre |-> state,
                         res |-> SetPermissions(state, sender, txn, NoRun),
                         receipts |-> <<>>]
             /\ UNCHANGED <<state, ntx, written, events>>

HandlerNext ==
    \/ HandleSetPermissions
    \/ Respond

HandlerSpec == HandlerInit /\ [][HandlerNext]_vars

\* ------------------------------------------- the adapter on its own
\* The calls the EVM makes on SawtoothAppState within one transaction,
\* applied one at a time to the context, starting from an empty one. In
\* this specification last is the most recent call: its name and
\* arguments, the context before it (pre), whether it panicked and what it
\* returned.
AdapterAddrs == {PublicKeyToEvmAddr(k) : k \in Keys}

SlotKeys == {Word(n) : n \in 1..NumSlots}

SlotValues == {Word(n) : n \in 0..MaxWord}

\* the accounts the EVM hands to UpdateAccount: every field takes more
\* than one value, the balance also one of the upper half of its range
AccountChoices(addr) ==
    {[Address |-> addr, Balance |-> 0, Code |-> <<>>, Sequence |-> 0,
      Permissions |-> toVmPermissions(ZeroPermissions)],
     [Address |-> addr, Balance |-> 1, Code |-> <<96>>, Sequence |-> 1,
      Permissions |-> toVmPermissions([Perms |-> {Call}, SetBit |-> {Call}])],
     [Address |-> addr, Balance |-> 2 ^ BalanceBits - 1, Code |-> <<97>>,
      Sequence |-> 2, Permissions |-> toVmPermissions(AllOn)]}

NoSlots == [k \in SlotKeys |-> Zero256]

AdapterCall(type, addr, key, value, acct, panic, ret) ==
    [type |-> type, addr |-> addr, key |-> key, value |-> value,
     acct |-> acct, pre |-> state, panic |-> panic, ret |-> ret]

NoCall ==
    [type |-> "none", addr |-> GlobalPermissionsAddress, key |-> Zero256,
     value |-> Zero256, acct |-> {}, pre |-> EmptyState, panic |-> FALSE,
     ret |-> {}]

AdapterInit ==
    /\ state = EmptyState
    /\ last = NoCall
    /\ ntx = 0
    /\ written = [a \in AdapterAddrs |-> NoSlots]
    /\ events = <<>>

\* GetAccount returns nil for a missing entry
CallGetAccount ==
    \E a \in AdapterAddrs :
        /\ last' = AdapterCall("GetAccount", a, Zero256, Zero256, {}, FALSE,
                               IF Exists(state, a) THEN {GetAccount(state, a)}
                               ELSE {})
        /\ UNCHANGED <<state, ntx, written, events>>

\* the account handed over is one the EVM built or the one it just read
CallUpdateAccount ==
    \E a \in AdapterAddrs :
        \E acct \in AccountChoices(a) \cup
                    (IF Exists(state, a) THEN {GetAccount(state, a)} ELSE {}) :
            /\ state' = UpdateAccount(state, acct)
            /\ last' = AdapterCall("UpdateAccount", a, Zero256, Zero256,
                                   {acct}, FALSE, {})
            /\ UNCHANGED <<ntx, written, events>>

\* RemoveAccount panics when DelEntry finds nothing
CallRemoveAccount ==
    \E a \in AdapterAddrs :
        /\ state' = IF Exists(state, a) THEN RemoveAccount(state, a) ELSE state
        /\ written' = [written EXCEPT ![a] = NoSlots]
        /\ last' = AdapterCall("RemoveAccount", a, Zero256, Zero256, {},
                               ~Exists(state, a), {})
        /\ UNCHANGED <<ntx, events>>

\* MustGetEntry panics on a missing entry
CallGetStorage ==
    \E a \in AdapterAddrs, k \in SlotKeys :
        /\ last' = AdapterCall("GetStorage", a, k, Zero256, {},
                               ~Exists(state, a),
                               IF Exists(state, a) THEN {GetStorage(state, a, k)}
                               ELSE {})
        /\ UNCHANGED <<state, ntx, written, events>>

CallSetStorage ==
    \E a \in AdapterAddrs, k \in SlotKeys, v \in SlotValues :
        /\ state' = IF Exists(state, a) THEN SetStorage(state, a, k, v)
                    ELSE state
        /\ written' = IF Exists(state, a) THEN [written EXCEPT ![a][k] = v]
                      ELSE written
        /\ last' = AdapterCall("SetStorage", a, k, v, {}, ~Exists(state, a), {})
        /\ UNCHANGED <<ntx, events>>

\* the block info entries a block number may meet: a signature that
\* decodes, one of odd length, one with a character that is no hex digit
BlockInfoChoices ==
    {[HeaderSignature |-> str] : str \in {<<10, 11, 0, 1>>, <<1>>, <<1, HexBase>>}}

\* ret holds the block info found beside the hash and the error returned
CallGetBlockHash ==
    \E blockInfo \in Optional(BlockInfoChoices) :
        /\ last' = AdapterCall("GetBlockHash", GlobalPermissionsAddress,
                               Zero256, Zero256, {}, FALSE,
                               {[blockInfo |-> blockInfo,
                                 hash |-> GetBlockHash(blockInfo).hash,
                                 err |-> GetBlockHash(blockInfo).err]})
        /\ UNCHANGED <<state, ntx, written, events>>

AdapterNext ==
    \/ CallGetBlockHash
    \/ CallGetAccount
    \/ CallUpdateAccount
    \/ CallRemoveAccount
    \/ CallGetStorage
    \/ CallSetStorage

AdapterSpec == AdapterInit /\ [][AdapterNext]_vars

\* ------------------------------------------- the adapter's account calls
\* CreateAccount beside the calls that read and write account records.
\* CreateAccount is handed the account the EVM holds for the creator,
\* whose nonce need not be the stored one and whose entry need not exist;
\* NewEntry's error is a panic.
CallCreateAccount ==
    \E a \in AdapterAddrs : \E creator \in AccountChoices(a) :
        /\ state' = SawtoothAppState_CreateAccount(state, creator).st
        /\ last' = AdapterCall("CreateAccount", a, Zero256, Zero256, {creator},
                     SawtoothAppState_CreateAccount(state, creator).panic,
                     IF SawtoothAppState_CreateAccount(state, creator).panic
                     THEN {}
                     ELSE {[creator |->
                              SawtoothAppState_CreateAccount(state, creator).creator,
                            acct |->
                              SawtoothAppState_CreateAccount(state, creator).acct]})
        /\ UNCHANGED <<ntx, written, events>>

AccountsNext ==
    \/ CallCreateAccount
    \/ CallUpdateAccount
    \/ CallGetAccount

AccountsSpec == AdapterInit /\ [][AccountsNext]_vars

\* ---------------------------------------------------- the event sink
\* SawtoothEventFireable, the sink the EVM is handed for one transaction.

\* the most topics a log carries (LOG0 .. LOG4)
MaxTopics == 4

\* the most events kept for one transaction
MaxEvents == 2

\* hex.EncodeToString: two lower-case digits a byte, high digit first
HexEncodeToString(bs) ==
    [i \in 1..(2 * Len(bs)) |->
        IF i % 2 = 1 THEN bs[(i + 1) \div 2] \div HexBase
        ELSE bs[i \div 2] % HexBase]

UpperHexDigit(d) == IF d >= FirstLetterDigit THEN d + HexBase ELSE d

\* hex.EncodeUpperToString
HexEncodeUpperToString(bs) ==
    [i \in 1..(2 * Len(bs)) |-> UpperHexDigit(HexEncodeToString(bs)[i])]

\* Address.String
AddressString(addr) == HexEncodeUpperToString(addr)

\* fmt.Sprintf("topic%v", n)
TopicKey(n) == <<"topic", n>>

TopicAttributes_FromZero(topics) ==
    [i \in 1..Len(topics) |->
        [Key |-> TopicKey(i - 1), Value |-> HexEncodeToString(topics[i])]]

\* the loop over log.Topics
TopicAttributes(topics) ==
    [i \in 1..Len(topics) |->
        [Key |-> TopicKey(i), Value |-> HexEncodeToString(topics[i])]]

\* Log: the events of the context after the callback
SawtoothEventFireable_Log(evs, log) ==
    Append(evs,
           [EventType |-> "seth_log_event",
            Attributes |->
                <<[Key |-> "address", Value |-> HexEncodeToString(log.Address)],
                  [Key |-> "eventID", Value |-> AddressString(log.Address)]>>
                \o TopicAttributes(log.Topics),
            Data |-> log.Data])

\* Call: the events of the context after the callback
SawtoothEventFireable_Call(evs, call) == evs

\* addresses of logging contracts; the second has bytes whose digits are
\* letters
LogAddrs == AdapterAddrs \cup {<<HexBase * FirstLetterDigit + HexBase - 1>>}

TopicWords == [i \in 1..MaxTopics |-> Word(i)]

TopicChoices ==
    {SubSeq(TopicWords, 1, k) : k \in 0..MaxTopics}
    \cup {<<Word(2), Word(1)>>, <<Word(HexBase * HexBase - 1)>>}

LogChoices ==
    [Address : LogAddrs, Topics : TopicChoices, Data : {<<>>, <<1, 0>>}]

CallChoices == [Callee : AdapterAddrs]

NoCallback == [type |-> "none", log |-> {}, pre |-> <<>>, logs |-> <<>>]

EventInit ==
    /\ state = EmptyState
    /\ last = NoCallback
    /\ ntx = 0
    /\ written = <<>>
    /\ events = <<>>

\* last holds the callback just made, the events before it and the Log
\* callbacks of the transaction so far
FireLog ==
    \E log \in LogChoices :
        /\ Len(events) < MaxEvents
        /\ events' = SawtoothEventFireable_Log(events, log)
        /\ last' = [type |-> "Log", log |-> {log}, pre |-> events,
                    logs |-> Append(last.logs, log)]
        /\ UNCHANGED <<state, ntx, written>>

FireCall ==
    \E call \in CallChoices :
        /\ events' = SawtoothEventFireable_Call(events, call)
        /\ last' = [type |-> "Call", log |-> {}, pre |-> events,
                    logs |-> last.logs]
        /\ UNCHANGED <<state, ntx, written>>

EventNext ==
    \/ FireLog
    \/ FireCall

EventSpec == EventInit /\ [][EventNext]_vars

\* ------------------------------------------------------ claim vocabulary
Pending == last.type # "none"

Succeeded == Pending /\ last.res.kind = "ok"

Rejected == Pending /\ last.res.kind = "invalid"

SenderExisted == Exists(last.pre, last.sender)

PreNonce(a) == last.pre[a].Account.Nonce

PostNonce(a) == last.res.st[a].Account.Nonce

\* the flag is governed by the account itself and on
LocalGrants(st, addr, flag) ==
    /\ flag \in st[addr].Account.Permissions.SetBit
    /\ flag \in st[addr].Account.Permissions.Perms

GlobalGrants(st, flag) ==
    /\ Exists(st, GlobalPermissionsAddress)
    /\ LocalGrants(st, GlobalPermissionsAddress, flag)

ExternalAddrs == {PublicKeyToEvmAddr(k) : k \in Keys}

CallOnly == [Perms |-> {Call}, SetBit |-> {Call}]

\* --------------------------------------------------------------- claims

\* C1: every successful transaction of a sender that existed before it
\* leaves the sender's stored nonce at its previous value plus exactly 1,
\* whatever the target address (the sender's own address included).
C1_SenderNonceIncremented ==
    (Succeeded /\ SenderExisted) =>
        PostNonce(last.sender) = PreNonce(last.sender) + 1

\* C2: on every path on which a handler returns an error it has issued no
\* write: the context state at the error equals the state the handler
\* was entered with.
C2_ErrorLeavesContextUnchanged ==
    Rejected => last.res.st = last.pre

\* C3: after a successful CreateContractAccount by A with stored nonce n
\* an entry exists at Derive(A, n) and its code is the value the EVM
\* returned for the init code.
C3_CodeStoredAtDerivedAddress ==
    (Succeeded /\ last.type = "CreateContractAccount") =>
        LET d == Derive(last.sender, PreNonce(last.sender))
        IN /\ Exists(last.res.st, d)
           /\ last.res.st[d].Account.Code = last.run.out

\* C4: the new account reported by a successful CreateContractAccount, and
\* with it the receipt's contract address, is Derive(A, n).
C4_ReportedAccountIsDerived ==
    (Succeeded /\ last.type = "CreateContractAccount") =>
        LET d == Derive(last.sender, PreNonce(last.sender))
        IN /\ {a.Address : a \in last.res.NewAccount} = {d}
           /\ last.receipts[1].ContractAddress = {d}

\* C5: no successful transaction changes the code of an account that
\* already had non-empty code.
C5_CodeImmutable ==
    Succeeded =>
        \A a \in DOMAIN last.pre :
            last.pre[a].Account.Code # <<>> =>
                /\ Exists(last.res.st, a)
                /\ last.res.st[a].Account.Code = last.pre[a].Account.Code

\* C6: in every committed state the accounts at public-key addresses
\* (created by CreateExternalAccount only) have empty code.
C6_ExternalAccountsHaveNoCode ==
    \A a \in ExternalAddrs :
        Exists(state, a) => state[a].Account.Code = <<>>

\* C7: a transaction applied successfully by an existing sender is
\* rejected as invalid when the identical transaction is applied again to
\* the resulting state, whatever the EVM would do.
C7_ReplayRejected ==
    (Succeeded /\ SenderExisted) =>
        \A run \in EvmRuns :
            Handle(last.type, EnsureGlobalPermissions(last.res.st),
                   last.sender, last.txn, run).kind = "invalid"

\* the S5 follow-up: a well-formed SetPermissions with a matching nonce
\* sent by an account whose masks are exactly {perms: Call, set_bit: Call}
S5FollowUp ==
    /\ Pending
    /\ last.type = "SetPermissions"
    /\ SenderExisted
    /\ last.pre[last.sender].Account.Permissions = CallOnly
    /\ last.txn.Nonce = PreNonce(last.sender)
    /\ last.txn.Permissions # {}
    /\ \E to \in last.txn.To : Exists(last.pre, to)

\* C8 (as stated): with a global permissions account granting all flags,
\* the S5 follow-up SetPermissions sent by B is rejected.
C8_FollowUpRejectedUnderFullGlobal ==
    (S5FollowUp /\ \A f \in AllPermFlags : GlobalGrants(last.pre, f)) =>
        last.res.kind = "invalid"

\* C8 (amended): the S5 follow-up SetPermissions sent by B is rejected
\* exactly when the global permissions account does not grant Root; B
\* does not govern Root itself, so the global account answers for it.
C8_FollowUpRejectedIffGlobalDeniesRoot ==
    S5FollowUp =>
        (last.res.kind = "invalid" <=> ~GlobalGrants(last.pre, Root))

C8_Witness ==
    /\ S5FollowUp
    /\ ~GlobalGrants(last.pre, Root)
    /\ last.res.kind = "invalid"
    /\ last.res.st = last.pre

SelfBootstrapSucceeded ==
    /\ Succeeded
    /\ last.type = "CreateExternalAccount"
    /\ last.txn.To = {}

\* C9 (as stated): a successful self-bootstrap leaves an account at the
\* sender's address with nonce 1 and the global account's permissions
\* with Root forced off.
C9_BootstrapForcesRootOff ==
    SelfBootstrapSucceeded =>
        /\ Exists(last.res.st, last.sender)
        /\ PostNonce(last.sender) = 1
        /\ last.res.st[last.sender].Account.Permissions =
              BaseSet(last.pre[GlobalPermissionsAddress].Account.Permissions,
                      Root, FALSE)

\* C9 (amended): a successful self-bootstrap leaves an account at the
\* sender's address with nonce 1 and exactly the global account's
\* permissions, the Root bit as the global account has it.
C9_BootstrapCopiesGlobal ==
    SelfBootstrapSucceeded =>
        /\ Exists(last.res.st, last.sender)
        /\ PostNonce(last.sender) = 1
        /\ last.res.st[last.sender].Account.Permissions =
              last.pre[GlobalPermissionsAddress].Account.Permissions

C9_Witness ==
    /\ SelfBootstrapSucceeded
    /\ ~SenderExisted
    /\ GlobalGrants(last.pre, Root)
    /\ LocalGrants(last.res.st, last.sender, Root)

\* the flags a pending transaction of an existing sender requires
RequiredFlags ==
    (IF last.type = "CreateExternalAccount" /\ last.txn.To # {}
     THEN {CreateAccount} ELSE {})
    \cup (IF last.type = "CreateContractAccount" THEN {CreateContract} ELSE {})
    \cup (IF last.type = "MessageCall" THEN {Call} ELSE {})
    \cup (IF last.type = "SetPermissions" THEN {Root} ELSE {})
    \cup (IF /\ last.type \in {"CreateExternalAccount", "CreateContractAccount"}
             /\ (last.txn.To # {} \/ last.type = "CreateContractAccount")
             /\ last.txn.Permissions # {}
          THEN {Root} ELSE {})

Denied(flag) ==
    /\ ~LocalGrants(last.pre, last.sender, flag)
    /\ ~GlobalGrants(last.pre, flag)

\* C10: a transaction of an existing sender is rejected as invalid when
\* some flag it requires is granted neither by the sender's own
\* permissions nor by the global permissions account.
C10_DeniedFlagRejects ==
    (Pending /\ SenderExisted) =>
        \A f \in RequiredFlags : Denied(f) => last.res.kind = "invalid"

\* a message call that fails on the permission check alone
C10_Witness ==
    /\ Pending
    /\ last.type = "MessageCall"
    /\ SenderExisted
    /\ Denied(Call)
    /\ last.txn.Nonce = PreNonce(last.sender)
    /\ \E to \in last.txn.To : Exists(last.pre, to)
    /\ ~last.run.err
    /\ last.res.kind = "invalid"

\* the flag is governed by the account itself and off
GovernedOff(st, addr, flag) ==
    /\ flag \in st[addr].Account.Permissions.SetBit
    /\ flag \notin st[addr].Account.Permissions.Perms

\* a message call that can only fail on the permission check: matching
\* nonce, existing receiver, an EVM run that ends well
WellFormedCall ==
    /\ Pending
    /\ last.type = "MessageCall"
    /\ SenderExisted
    /\ last.txn.Nonce = PreNonce(last.sender)
    /\ \E to \in last.txn.To : Exists(last.pre, to)
    /\ ~last.run.err
    /\ ~last.run.create

\* C11: a flag the sender governs itself is decided by the sender's own
\* bit and the global permissions account is not consulted: governed and
\* off, every transaction requiring the flag is rejected even when the
\* global account grants it; the global account decides only when the
\* flag is absent from the sender's set_bit.
C11_LocalBitDecides ==
    (Pending /\ SenderExisted) =>
        /\ \A f \in RequiredFlags :
              GovernedOff(last.pre, last.sender, f) => last.res.kind = "invalid"
        /\ WellFormedCall =>
              (last.res.kind = "ok" <=>
                  IF Call \in last.pre[last.sender].Account.Permissions.SetBit
                  THEN Call \in last.pre[last.sender].Account.Permissions.Perms
                  ELSE GlobalGrants(last.pre, Call))

C11_Witness ==
    /\ WellFormedCall
    /\ GovernedOff(last.pre, last.sender, Call)
    /\ GlobalGrants(last.pre, Call)
    /\ last.res.kind = "invalid"

\* an account creation by an existing sender: on-behalf
\* CreateExternalAccount or CreateContractAccount
CreatesAccount ==
    /\ Pending
    /\ SenderExisted
    /\ \/ last.type = "CreateContractAccount"
       \/ last.type = "CreateExternalAccount" /\ last.txn.To # {}

\* the address of the account such a transaction creates
CreatedAddress ==
    IF last.type = "CreateContractAccount"
    THEN Derive(last.sender, PreNonce(last.sender))
    ELSE CHOOSE a \in last.txn.To : TRUE

\* C12: an account created without an explicit permissions field is
\* stored with the creator's masks in which Root is governed and off and
\* every other flag is as the creator had it before the transaction.
C12_InheritedPermissions ==
    (CreatesAccount /\ Succeeded /\ last.txn.Permissions = {}) =>
        /\ Exists(last.res.st, CreatedAddress)
        /\ last.res.st[CreatedAddress].Account.Permissions =
              BaseSet(last.pre[last.sender].Account.Permissions, Root, FALSE)

\* C13: an account creation carrying an explicit permissions field is
\* rejected when the sender does not have Root; when the sender has Root
\* and the transaction succeeds the new account's (set_bit, perms) pair
\* is exactly the pair supplied.
C13_ExplicitPermissions ==
    (CreatesAccount /\ last.txn.Permissions # {}) =>
        /\ ~HasPermission(last.pre, last.sender, Root) =>
              last.res.kind = "invalid"
        /\ (HasPermission(last.pre, last.sender, Root) /\ Succeeded) =>
              /\ Exists(last.res.st, CreatedAddress)
              /\ \A p \in last.txn.Permissions :
                    last.res.st[CreatedAddress].Account.Permissions = p

\* a transaction that is not a self-bootstrap
NotSelfBootstrap ==
    /\ Pending
    /\ ~(last.type = "CreateExternalAccount" /\ last.txn.To = {})

\* C14: a transaction (other than a self-bootstrap) whose nonce differs
\* from the sender's stored nonce is rejected as invalid and the context
\* state is as the handler found it.
C14_NonceMismatchRejected ==
    (NotSelfBootstrap /\ SenderExisted
        /\ last.txn.Nonce # PreNonce(last.sender)) =>
        /\ last.res.kind = "invalid"
        /\ last.res.st = last.pre

\* S4: a contract creation that fails on the nonce alone
C14_Witness ==
    /\ Pending
    /\ last.type = "CreateContractAccount"
    /\ SenderExisted
    /\ HasPermission(last.pre, last.sender, CreateContract)
    /\ last.txn.Permissions = {}
    /\ last.txn.Nonce > PreNonce(last.sender)
    /\ ~last.run.err
    /\ last.res.kind = "invalid"
    /\ last.res.st = last.pre

\* the context states a pending transaction went through, write by write
ContextStates == <<last.pre>> \o last.res.mid \o <<last.res.st>>

\* C15: across the writes of any transaction, accepted or rejected, the
\* EVM's adapter calls included, the stored nonce of an account that stays
\* in the state never decreases.
C15_NonceNeverDecreases ==
    Pending =>
        \A i \in 1..(Len(ContextStates) - 1) :
            \A a \in (DOMAIN ContextStates[i]) \cap (DOMAIN ContextStates[i + 1]) :
                ContextStates[i + 1][a].Account.Nonce >=
                    ContextStates[i][a].Account.Nonce

\* C16: contract creation never reaches the fatal address-collision path:
\* the address derived from creator and nonce holds no entry when the
\* contract is created.
C16_NoAddressCollision ==
    (Pending /\ last.type = "CreateContractAccount"
        /\ SenderExisted /\ ~last.run.create) =>
        last.res.kind # "panic"

\* C17: a transaction other than a self-bootstrap whose sender has no
\* account entry is rejected as invalid and no account is created or
\* modified.
C17_MissingSenderRejected ==
    (NotSelfBootstrap /\ ~SenderExisted) =>
        /\ last.res.kind = "invalid"
        /\ last.res.st = last.pre

\* an on-behalf creation that would pass every other check
C17_Witness ==
    /\ Pending
    /\ last.type = "CreateExternalAccount"
    /\ ~SenderExisted
    /\ last.txn.To # {}
    /\ \A to \in last.txn.To : ~Exists(last.pre, to)
    /\ GlobalGrants(last.pre, CreateAccount)
    /\ last.res.kind = "invalid"
    /\ ~Exists(last.res.st, last.sender)

SelfBootstrap ==
    /\ Pending
    /\ last.type = "CreateExternalAccount"
    /\ last.txn.To = {}

\* C18: a self-bootstrap whose sender account already exists is rejected
\* as invalid and the existing entry (nonce, permissions, code, storage)
\* is unchanged.
C18_BootstrapOfExistingRejected ==
    (SelfBootstrap /\ SenderExisted) =>
        /\ last.res.kind = "invalid"
        /\ last.res.st = last.pre

\* the sender has moved past nonce 1 and holds storage, and the global
\* account would allow a creation
C18_Witness ==
    /\ SelfBootstrap
    /\ SenderExisted
    /\ PreNonce(last.sender) > 1
    /\ last.pre[last.sender].Storage # <<>>
    /\ GlobalGrants(last.pre, CreateAccount)
    /\ last.res.kind = "invalid"
    /\ last.res.st[last.sender] = last.pre[last.sender]

\* C19: a self-bootstrap succeeds only if the global permissions account
\* grants CreateAccount; when it does not, the transaction is rejected
\* as invalid and no account is created at the sender's address.
C19_BootstrapNeedsGlobalCreateAccount ==
    SelfBootstrap =>
        /\ Succeeded => GlobalGrants(last.pre, CreateAccount)
        /\ ~GlobalGrants(last.pre, CreateAccount) =>
              /\ last.res.kind = "invalid"
              /\ last.res.st = last.pre

C19_Witness ==
    /\ SelfBootstrap
    /\ ~SenderExisted
    /\ ~GlobalGrants(last.pre, CreateAccount)
    /\ last.res.kind = "invalid"
    /\ ~Exists(last.res.st, last.sender)

\* C20: an on-behalf CreateExternalAccount whose `to` address already
\* holds an account (the sender's own address included) is rejected as
\* invalid; neither the target nor the sender is modified.
C20_ExistingTargetRejected ==
    (Pending /\ last.type = "CreateExternalAccount"
        /\ \E to \in last.txn.To : Exists(last.pre, to)) =>
        /\ last.res.kind = "invalid"
        /\ last.res.st = last.pre

\* the target is the sender itself and every other check passes
C20_Witness ==
    /\ Pending
    /\ last.type = "CreateExternalAccount"
    /\ SenderExisted
    /\ last.txn.To = {last.sender}
    /\ HasPermission(last.pre, last.sender, CreateAccount)
    /\ last.txn.Nonce = PreNonce(last.sender)
    /\ last.txn.Permissions = {}
    /\ last.res.kind = "invalid"
    /\ PostNonce(last.sender) = PreNonce(last.sender)

\* C21: a successful CreateExternalAccount yields a result with no new
\* contract address, gas_used 0 and an empty return value, and so the
\* receipt {contract_address unset, gas_used 0, return_value empty}.
C21_ExternalAccountReceiptEmpty ==
    (Succeeded /\ last.type = "CreateExternalAccount") =>
        /\ last.res.NewAccount = {}
        /\ last.res.GasUsed = 0
        /\ last.res.ReturnValue = <<>>
        /\ last.receipts =
              <<[ContractAddress |-> {}, GasUsed |-> 0, ReturnValue |-> <<>>]>>

\* the target of a pending SetPermissions or MessageCall
Target == CHOOSE a \in last.txn.To : TRUE

\* C22: a successful SetPermissions leaves the target with exactly the
\* (set_bit, perms) pair supplied in the transaction, nothing of the
\* previous permissions retained or merged.
C22_PermissionsOverwritten ==
    (Succeeded /\ last.type = "SetPermissions") =>
        /\ Exists(last.res.st, Target)
        /\ \A p \in last.txn.Permissions :
              last.res.st[Target].Account.Permissions = p

\* the target had bits the supplied pair does not have
C22_Witness ==
    /\ Succeeded
    /\ last.type = "SetPermissions"
    /\ Exists(last.pre, Target)
    /\ Target # last.sender
    /\ last.txn.Permissions = {CallOnly}
    /\ last.pre[Target].Account.Permissions.Perms = AllPermFlags
    /\ last.res.st[Target].Account.Permissions = CallOnly

\* C24: a MessageCall whose `to` address holds no account is rejected as
\* invalid: the EVM is not run (no write reaches the context) and the
\* sender's nonce is not incremented.
C24_MissingReceiverRejected ==
    (Pending /\ last.type = "MessageCall"
        /\ \A to \in last.txn.To : ~Exists(last.pre, to)) =>
        /\ last.res.kind = "invalid"
        /\ last.res.st = last.pre

\* every other check passes and the EVM run would have written
C24_Witness ==
    /\ Pending
    /\ last.type = "MessageCall"
    /\ SenderExisted
    /\ HasPermission(last.pre, last.sender, Call)
    /\ last.txn.Nonce = PreNonce(last.sender)
    /\ last.txn.To # {}
    /\ ~Exists(last.pre, Target)
    /\ last.run.writes # <<>>
    /\ ~last.run.err
    /\ last.res.kind = "invalid"
    /\ PostNonce(last.sender) = PreNonce(last.sender)

\* the pending MessageCall or CreateContractAccount passed every check
\* before the EVM call
EvmInvoked ==
    /\ Pending
    /\ SenderExisted
    /\ last.txn.Nonce = PreNonce(last.sender)
    /\ \/ /\ last.type = "MessageCall"
          /\ HasPermission(last.pre, last.sender, Call)
          /\ \E to \in last.txn.To : Exists(last.pre, to)
       \/ /\ last.type = "CreateContractAccount"
          /\ HasPermission(last.pre, last.sender, CreateContract)
          /\ last.txn.Permissions # {} =>
                HasPermission(last.pre, last.sender, Root)
          /\ ~Exists(last.pre, Derive(last.sender, PreNonce(last.sender)))

\* C25: when the EVM reports an error during MessageCall or
\* CreateContractAccount the handler returns an invalid result with no
\* return value and no new account, no receipt is made, and the sender's
\* stored nonce is not incremented.
C25_VmErrorRejected ==
    (EvmInvoked /\ last.run.err) =>
        /\ last.res.kind = "invalid"
        /\ last.res.ReturnValue = <<>>
        /\ last.res.NewAccount = {}
        /\ last.receipts = <<>>
        /\ PostNonce(last.sender) = PreNonce(last.sender)

\* the failing run wrote to the callee before it failed
C25_Witness ==
    /\ EvmInvoked
    /\ last.type = "MessageCall"
    /\ last.run.err
    /\ last.res.st # last.pre
    /\ last.res.kind = "invalid"
    /\ PostNonce(last.sender) = PreNonce(last.sender)

\* a SetPermissions that passes every check before the target is looked
\* up, aimed at an address with no entry
SetPermissionsOnMissing ==
    /\ Pending
    /\ last.type = "SetPermissions"
    /\ SenderExisted
    /\ HasPermission(last.pre, last.sender, Root)
    /\ last.txn.Nonce = PreNonce(last.sender)
    /\ last.txn.Permissions # {}
    /\ last.txn.To # {}
    /\ ~Exists(last.pre, Target)

\* C23: a SetPermissions whose `to` has no entry and is not the global
\* permissions address is rejected as invalid with no write; when `to`
\* is the global permissions address and no entry exists there, the
\* entry is created with the supplied permissions and the transaction
\* succeeds.
C23_TargetExistence ==
    /\ (Pending /\ last.type = "SetPermissions" /\ last.txn.To # {}
           /\ ~Exists(last.pre, Target)
           /\ Target # GlobalPermissionsAddress) =>
          /\ last.res.kind = "invalid"
          /\ last.res.st = last.pre
    /\ (SetPermissionsOnMissing /\ Target = GlobalPermissionsAddress) =>
          /\ last.res.kind = "ok"
          /\ Exists(last.res.st, GlobalPermissionsAddress)
          /\ \A p \in last.txn.Permissions :
                last.res.st[GlobalPermissionsAddress].Account.Permissions = p

C23_Witness ==
    /\ SetPermissionsOnMissing
    /\ Target = GlobalPermissionsAddress
    /\ last.res.kind = "ok"
    /\ Exists(last.res.st, GlobalPermissionsAddress)
    /\ PostNonce(last.sender) = PreNonce(last.sender) + 1

\* an adapter call that returned without a panic
Called(type) == last.type = type /\ ~last.panic

\* C26: storage behaves as a map with default zero: after any sequence
\* of SetStorage calls on an existing account a, GetStorage(a, k) returns
\* the value of the most recent SetStorage(a, k, v) left-padded to 32
\* bytes, and the zero word for a key never set.
C26_StorageIsMap ==
    /\ \A a \in DOMAIN state : \A k \in SlotKeys :
          GetStorage(state, a, k) = LeftPadWord256(written[a][k])
    /\ Called("GetStorage") =>
          last.ret = {LeftPadWord256(written[last.addr][last.key])}

\* a read of a non-zero value from the first of two pairs, the second
\* pair holding an explicit zero, while the other account's slot of the
\* same key reads zero
C26_Witness ==
    /\ Called("GetStorage")
    /\ last.ret = {Word(1)}
    /\ Len(state[last.addr].Storage) = 2
    /\ state[last.addr].Storage[1].Key = last.key
    /\ state[last.addr].Storage[2].Value = Zero256
    /\ \E b \in DOMAIN state :
          b # last.addr /\ GetStorage(state, b, last.key) = Zero256

\* the storage list of the account of the last call, before and after
StorageBefore == last.pre[last.addr].Storage

StorageAfter == state[last.addr].Storage

KeyPresentBefore ==
    \E i \in 1..Len(StorageBefore) :
        LeftPadWord256(StorageBefore[i].Key) = last.key

\* C27: storage keys are unique: no two pairs of an entry's storage list
\* have equal left-padded keys; setting a key already present leaves the
\* list's length and order unchanged (overwrite in place), and setting a
\* new key appends exactly one pair at the end.
C27_KeysUnique ==
    /\ \A a \in DOMAIN state :
          \A i, j \in 1..Len(state[a].Storage) :
              i # j => LeftPadWord256(state[a].Storage[i].Key)
                          # LeftPadWord256(state[a].Storage[j].Key)
    /\ (Called("SetStorage") /\ KeyPresentBefore) =>
          /\ Len(StorageAfter) = Len(StorageBefore)
          /\ \A i \in 1..Len(StorageBefore) :
                /\ StorageAfter[i].Key = StorageBefore[i].Key
                /\ LeftPadWord256(StorageBefore[i].Key) # last.key =>
                      StorageAfter[i].Value = StorageBefore[i].Value
    /\ (Called("SetStorage") /\ ~KeyPresentBefore) =>
          StorageAfter = Append(StorageBefore,
                                [Key |-> last.key, Value |-> last.value])

\* the first of two pairs is overwritten with a different value
C27_Witness ==
    /\ Called("SetStorage")
    /\ Len(StorageBefore) = 2
    /\ StorageBefore[1].Key = last.key
    /\ StorageBefore[1].Value # last.value
    /\ StorageAfter[1].Value = last.value
    /\ Len(StorageAfter) = 2

\* UpdateAccount was handed the account GetAccount returns for an entry
\* that existed
WroteBackWhatWasRead ==
    /\ Called("UpdateAccount")
    /\ Exists(last.pre, last.addr)
    /\ last.acct = {GetAccount(last.pre, last.addr)}

\* C28: for every existing account a, UpdateAccount(GetAccount(a)) leaves
\* the stored entry unchanged: the account record (address, balance, code,
\* nonce, permissions) and the storage list are the same before and after.
C28_RoundTrip ==
    /\ WroteBackWhatWasRead => state = last.pre
    /\ \A a \in DOMAIN state :
          UpdateAccount(state, GetAccount(state, a))[a] = state[a]

\* the entry written back has a negative stored balance, code, a nonce,
\* permissions and storage
C28_Witness ==
    /\ WroteBackWhatWasRead
    /\ last.pre[last.addr].Account.Balance < 0
    /\ last.pre[last.addr].Account.Code # <<>>
    /\ last.pre[last.addr].Account.Nonce > 0
    /\ last.pre[last.addr].Account.Permissions # ZeroPermissions
    /\ Len(StorageBefore) = 2
    /\ state[last.addr] = last.pre[last.addr]

\* C29: read-your-writes within a transaction: after UpdateAccount(acct)
\* a following GetAccount(acct.Address) returns an account equal to acct
\* in every field, and after RemoveAccount(addr) a following
\* GetAccount(addr) returns none; UpdateAccount creates the entry when
\* none exists.
C29_ReadYourWrites ==
    /\ Called("UpdateAccount") =>
          /\ Exists(state, last.addr)
          /\ last.acct = {GetAccount(state, last.addr)}
    /\ Called("RemoveAccount") => ~Exists(state, last.addr)
    /\ (Called("GetAccount") /\ ~Exists(state, last.addr)) => last.ret = {}
    /\ (Called("GetAccount") /\ Exists(state, last.addr)) =>
          last.ret = {GetAccount(state, last.addr)}

\* UpdateAccount made the entry of an account of the upper half of the
\* balance range, with code, nonce and permissions, and it reads back
C29_Witness ==
    /\ Called("UpdateAccount")
    /\ ~Exists(last.pre, last.addr)
    /\ Exists(state, last.addr)
    /\ \A acct \in last.acct :
          /\ acct.Balance = 2 ^ BalanceBits - 1
          /\ acct.Sequence = 2
          /\ GetAccount(state, last.addr) = acct
    /\ state[last.addr].Account.Balance = -1

BootstrapAllowed ==
    /\ SelfBootstrap
    /\ ~SenderExisted
    /\ GlobalGrants(last.pre, CreateAccount)

\* C38: the outcome of a self-bootstrap CreateExternalAccount does not
\* depend on the transaction's nonce field: for a sender with no account
\* and a global permissions account granting CreateAccount it succeeds and
\* creates the account with nonce 1 for every value of the nonce field.
C38_BootstrapIgnoresNonce ==
    BootstrapAllowed =>
        /\ Succeeded
        /\ Exists(last.res.st, last.sender)
        /\ PostNonce(last.sender) = 1
        /\ \A n \in Nonces :
              CreateExternalAccount(last.pre, last.sender,
                                    [last.txn EXCEPT !.Nonce = n], last.run)
                  = last.res

\* a self-bootstrap whose nonce field is neither 0 nor 1
C38_Witness ==
    /\ BootstrapAllowed
    /\ last.txn.Nonce = 2
    /\ Succeeded
    /\ PostNonce(last.sender) = 1

\* the stored (set_bit, perms) pair of an account
StoredPermissions(st, addr) == st[addr].Account.Permissions

\* C34: the permissions of an existing account change only through a
\* successful SetPermissions that targets it: a successful
\* CreateExternalAccount, CreateContractAccount or MessageCall leaves the
\* sender's stored (set_bit, perms) pair, Root bit included, as it was.
C34_PermissionsOnlyBySetPermissions ==
    Succeeded =>
        \A a \in DOMAIN last.pre :
            (Exists(last.res.st, a)
                /\ StoredPermissions(last.res.st, a)
                      # StoredPermissions(last.pre, a)) =>
                /\ last.type = "SetPermissions"
                /\ last.txn.To = {a}

\* C34 without CreateContractAccount
C34_ExceptContractCreation ==
    (Succeeded /\ last.type # "CreateContractAccount") =>
        \A a \in DOMAIN last.pre :
            (Exists(last.res.st, a)
                /\ StoredPermissions(last.res.st, a)
                      # StoredPermissions(last.pre, a)) =>
                /\ last.type = "SetPermissions"
                /\ last.txn.To = {a}

\* the account has Root, by its own bit or by the global account's
HasRoot(st, addr) == HasPermission(st, addr, Root)

\* a successful transaction whose sender has no Root, handled while the
\* global permissions account does not grant Root
SentWithoutRoot ==
    /\ Succeeded
    /\ ~GlobalGrants(last.pre, Root)
    /\ SenderExisted => ~HasRoot(last.pre, last.sender)

\* C35: no escalation to Root: while the global permissions account does
\* not grant Root, a transaction sent by an account that does not have
\* Root leaves no account, existing or newly created, with Root that did
\* not have it before; the global account included, so the property
\* carries over every sequence of such transactions.
C35_NoRootEscalation ==
    SentWithoutRoot =>
        \A a \in DOMAIN last.res.st :
            HasRoot(last.res.st, a) =>
                /\ Exists(last.pre, a)
                /\ HasRoot(last.pre, a)

\* a sender without Root creates an account, which ends without Root,
\* while another account holds Root
C35_Witness ==
    /\ SentWithoutRoot
    /\ SenderExisted
    /\ CreatesAccount
    /\ Exists(last.res.st, CreatedAddress)
    /\ ~Exists(last.pre, CreatedAddress)
    /\ ~HasRoot(last.res.st, CreatedAddress)
    /\ \E a \in DOMAIN last.pre : HasRoot(last.pre, a)

\* the entry at addr is the same before and after but for its nonce
SameButNonce(addr) ==
    /\ Exists(last.res.st, addr)
    /\ [last.res.st[addr] EXCEPT !.Account.Nonce = PreNonce(addr)]
          = last.pre[addr]

\* every account other than the sender and the target is untouched, and no
\* entry but the target's is added or removed
OthersUntouched ==
    /\ DOMAIN last.res.st \ {Target} = DOMAIN last.pre \ {Target}
    /\ \A a \in DOMAIN last.pre \ {last.sender, Target} :
          last.res.st[a] = last.pre[a]

\* C36: a successful SetPermissions or on-behalf CreateExternalAccount
\* changes only the sender's nonce and the target account: its
\* permissions for SetPermissions, its creation with nonce 1, empty code
\* and empty storage for CreateExternalAccount; the target's nonce, code,
\* balance and storage under SetPermissions and every account other than
\* sender and target are unchanged.
C36_Frame ==
    /\ (Succeeded /\ last.type = "SetPermissions") =>
          /\ OthersUntouched
          /\ last.sender # Target => SameButNonce(last.sender)
          /\ Exists(last.pre, Target)
          /\ [last.res.st[Target] EXCEPT
                 !.Account.Permissions = StoredPermissions(last.pre, Target),
                 !.Account.Nonce = IF Target = last.sender
                                   THEN PreNonce(Target) ELSE @]
                = last.pre[Target]
    /\ (Succeeded /\ last.type = "CreateExternalAccount"
           /\ last.txn.To # {}) =>
          /\ OthersUntouched
          /\ SameButNonce(last.sender)
          /\ ~Exists(last.pre, Target)
          /\ Exists(last.res.st, Target)
          /\ last.res.st[Target].Account.Nonce = 1
          /\ last.res.st[Target].Account.Code = <<>>
          /\ last.res.st[Target].Storage = <<>>

\* the permissions of another account that holds storage are set
C36_Witness ==
    /\ Succeeded
    /\ last.type = "SetPermissions"
    /\ Target # last.sender
    /\ Target # GlobalPermissionsAddress
    /\ last.pre[Target].Storage # <<>>
    /\ last.res.st[Target].Storage = last.pre[Target].Storage
    /\ StoredPermissions(last.res.st, Target)
          # StoredPermissions(last.pre, Target)
    /\ PostNonce(last.sender) = PreNonce(last.sender) + 1

\* every entry but the one the last adapter call named is as before
OtherEntriesKept ==
    /\ DOMAIN state \ {last.addr} = DOMAIN last.pre \ {last.addr}
    /\ \A b \in DOMAIN last.pre \ {last.addr} : state[b] = last.pre[b]

\* C37: account record and storage are updated independently within one
\* entry: UpdateAccount(acct) replaces only the account record of the
\* entry at acct.Address and leaves its storage list unchanged, whatever
\* was written to storage since acct was read; SetStorage(a, k, v)
\* changes only the storage list of a and leaves a's account record and
\* every other entry unchanged.
C37_RecordAndStorageIndependent ==
    /\ Called("UpdateAccount") =>
          /\ OtherEntriesKept
          /\ state[last.addr].Account \in {toStateAccount(a) : a \in last.acct}
          /\ state[last.addr].Storage =
                IF Exists(last.pre, last.addr) THEN StorageBefore ELSE <<>>
    /\ Called("SetStorage") =>
          /\ OtherEntriesKept
          /\ state[last.addr].Account = last.pre[last.addr].Account
          /\ GetStorage(state, last.addr, last.key) = last.value

\* an account that differs from the stored one in every field but the
\* address is written over an entry holding two storage pairs
C37_Witness ==
    /\ Called("UpdateAccount")
    /\ Exists(last.pre, last.addr)
    /\ Len(StorageBefore) = 2
    /\ StorageAfter = StorageBefore
    /\ \A a \in last.acct :
          /\ a.Sequence # last.pre[last.addr].Account.Nonce
          /\ a.Code # last.pre[last.addr].Account.Code
          /\ state[last.addr].Account.Nonce = a.Sequence
    /\ \E b \in DOMAIN state : b # last.addr

\* the address CreateAccount derives for the creator it was handed
NewAddressOf(creator) == Derive(creator.Address, creator.Sequence)

C33_AbortWitness ==
    /\ last.type = "CreateAccount"
    /\ last.panic
    /\ state = last.pre

\* C32: GetBlockHash for a block number whose block info is unavailable
\* returns the zero word and reports no error.
C32_MissingBlockInfoIsZero ==
    Called("GetBlockHash") =>
        \A r \in last.ret :
            r.blockInfo = {} => (r.hash = Zero256 /\ ~r.err)

\* what the code does: the zero word comes with an error whenever the
\* block info is missing or its signature does not decode, and a
\* signature that decodes gives its bytes padded on the right, no error
C32_MissingBlockInfoIsError ==
    Called("GetBlockHash") =>
        \A r \in last.ret :
            /\ r.err <=> (r.blockInfo = {} \/ \E b \in r.blockInfo :
                                                HexDecodeFails(b.HeaderSignature))
            /\ r.err => r.hash = Zero256
            /\ ~r.err => r.hash # Zero256

\* the event a Log callback is to leave: type, attributes in order, body
IsLogEventOf(ev, log) ==
    /\ ev.EventType = "seth_log_event"
    /\ Len(ev.Attributes) = 2 + Len(log.Topics)
    /\ ev.Attributes[1] =
         [Key |-> "address", Value |-> HexEncodeToString(log.Address)]
    /\ ev.Attributes[2] =
         [Key |-> "eventID", Value |-> AddressString(log.Address)]
    /\ \A i \in 1..Len(log.Topics) :
          ev.Attributes[2 + i] =
            [Key |-> <<"topic", i>>,
             Value |-> HexEncodeToString(log.Topics[i])]
    /\ ev.Data = log.Data

\* C31: a Log callback with at most four topics adds exactly one event, of
\* type seth_log_event, with attributes address, eventID, topic1 .. topick
\* in order and the log's data as body; a Call callback adds none; so the
\* events are the Log callbacks so far, one each, in order.
C31_EventsAreLogCallbacks ==
    /\ last.type = "Log" =>
          /\ Len(events) = Len(last.pre) + 1
          /\ SubSeq(events, 1, Len(last.pre)) = last.pre
          /\ \A log \in last.log :
                /\ Len(log.Topics) <= MaxTopics
                /\ IsLogEventOf(events[Len(events)], log)
    /\ last.type = "Call" => events = last.pre
    /\ last.type \in {"Log", "Call", "none"} =>
          /\ Len(events) = Len(last.logs)
          /\ \A i \in 1..Len(events) : IsLogEventOf(events[i], last.logs[i])

\* a Call callback made between two Log callbacks that differ, the second
\* with two or more topics
C31_Witness ==
    /\ last.type = "Log"
    /\ Len(events) = 2
    /\ last.logs[1] # last.logs[2]
    /\ Len(last.logs[2].Topics) >= 2
    /\ last.logs[2].Topics[1] # last.logs[2].Topics[2]

\* a Call callback made after a Log callback
C31_CallWitness ==
    /\ last.type = "Call"
    /\ Len(events) >= 1

====
